---- MODULE Spec2Model ----
(***************************************************************************)
(* Data-access layer of the twitter-clone exercise (src/db/index.js).      *)
(*                                                                         *)
(* Six adapters each send one parameterised SELECT through the shared pg   *)
(* client and hand back the rows of the reply; testDB awaits the six       *)
(* adapters one after the other.  The relational store is modelled by the  *)
(* rows of its six relations, the SQL statements by operators computing    *)
(* the replies the store may give (no statement has an ORDER BY, so every  *)
(* order of the selected rows is a possible reply), and the async          *)
(* functions by the steps between their suspension points.  The exported   *)
(* functions keep no state of their own, so any number of invocations may  *)
(* be in progress on the one client at a time; each has its own            *)
(* activation.                                                             *)
(***************************************************************************)
EXTENDS Integers, Sequences, FiniteSets, TLC

\* ---------------------------------------------------------------- bounds
MaxUser  == 2     \* user ids are 1..MaxUser
MaxTweet == 2     \* tweet ids are 1..MaxTweet
MaxTag   == 2     \* hashtag ids are 1..MaxTag
MaxAssoc == 2     \* rows in a join relation (tweet_hashtags, user_followers, likes)

UserIds  == 1..MaxUser
TweetIds == 1..MaxTweet
TagIds   == 1..MaxTag

\* the invocations that can be in progress at the same time
Activations == {"a1", "a2"}

\* values client.query can reject with
StoreErrors == {"ECONNREFUSED", "42P01"}
\* userTweets[0].id on an empty array
TypeError == "TypeError"
\* the JavaScript value undefined
Undefined == [undefined |-> TRUE]

VARIABLES
  store,     \* the rows of the six relations
  calls,     \* per activation: the invocation in progress (see Idle)
  pending    \* queries sent through the client and not yet answered

vars == <<store, calls, pending>>

\* ------------------------------------------------------------- sequences
RECURSIVE Flatten(_)
Flatten(ss) == IF Len(ss) = 0 THEN <<>> ELSE Head(ss) \o Flatten(Tail(ss))

RECURSIVE Ascending(_)
Ascending(S) ==
  IF S = {} THEN <<>>
  ELSE LET m == CHOOSE x \in S : \A y \in S : x <= y
       IN  <<m>> \o Ascending(S \ {m})

SeqsUpTo(S, n) == UNION { [1..k -> S] : k \in 0..n }

\* q lists its rows in non-decreasing order of the given ranks.
Sorted(q, rank) == \A i, j \in 1..Len(q) : i < j => rank[q[i]] <= rank[q[j]]

\* Every order in which the store may deliver the given rows.
Orderings(rows) ==
  { [i \in 1..Len(rows) |-> rows[p[i]]] : p \in Permutations(1..Len(rows)) }

\* ------------------------------------------------------------ the store
UserRow(i)      == [id |-> i, username |-> <<"user", i>>]
TweetRow(i, a)  == [id |-> i, author |-> a]
HashtagRow(i)   == [id |-> i, tag |-> <<"tag", i>>]

UsersTables    == { [k \in 1..Cardinality(S) |-> UserRow(Ascending(S)[k])] : S \in SUBSET UserIds }
HashtagsTables == { [k \in 1..Cardinality(S) |-> HashtagRow(Ascending(S)[k])] : S \in SUBSET TagIds }
TweetsTables   ==
  UNION { { [k \in 1..Cardinality(S) |-> TweetRow(Ascending(S)[k], f[Ascending(S)[k]])] :
              f \in [S -> UserIds] } : S \in SUBSET TweetIds }
\* The join relations: one representative (rows in rank order) of every
\* multiset of at most MaxAssoc rows.  Replies are delivered in any order,
\* so the order of the rows inside a relation is not observable.
TweetHashtagsTables ==
  { q \in SeqsUpTo([tweet_id : TweetIds, hashtag_id : TagIds], MaxAssoc) :
      Sorted(q, [r \in [tweet_id : TweetIds, hashtag_id : TagIds] |->
                   r.tweet_id * (MaxTag + 1) + r.hashtag_id]) }
UserFollowersTables ==
  { q \in SeqsUpTo([primary_id : UserIds, follower_id : UserIds], MaxAssoc) :
      Sorted(q, [r \in [primary_id : UserIds, follower_id : UserIds] |->
                   r.primary_id * (MaxUser + 1) + r.follower_id]) }
LikesTables ==
  { q \in SeqsUpTo([user_id : UserIds, tweet_id : TweetIds], MaxAssoc) :
      Sorted(q, [r \in [user_id : UserIds, tweet_id : TweetIds] |->
                   r.user_id * (MaxTweet + 1) + r.tweet_id]) }

\* The seeded database the variations start from: users 1 and 2, one tweet
\* by user 1 tagged once and liked once, user 2 following user 1.
SeedStore ==
  [ users          |-> <<UserRow(1), UserRow(2)>>,
    tweets         |-> <<TweetRow(1, 1)>>,
    hashtags       |-> <<HashtagRow(1)>>,
    tweet_hashtags |-> <<[tweet_id |-> 1, hashtag_id |-> 1]>>,
    user_followers |-> <<[primary_id |-> 1, follower_id |-> 2]>>,
    likes          |-> <<[user_id |-> 2, tweet_id |-> 1]>> ]

\* Stores explored with one invocation at a time: the seed with one group
\* of relations replaced by every table within the bounds.
Stores ==
  { [SeedStore EXCEPT !.users = u, !.user_followers = f] :
      u \in UsersTables, f \in UserFollowersTables }
  \cup
  { [SeedStore EXCEPT !.tweets = t, !.hashtags = h] :
      t \in TweetsTables, h \in HashtagsTables }
  \cup
  { [SeedStore EXCEPT !.hashtags = h, !.tweet_hashtags = th] :
      h \in HashtagsTables, th \in TweetHashtagsTables }
  \cup
  { [SeedStore EXCEPT !.likes = l] : l \in LikesTables }

\* Stores explored with overlapping invocations.
SharedStores == { SeedStore, [SeedStore EXCEPT !.tweets = <<>>] }

\* --------------------------------------------------- the SQL statements
\* Each operator is the set of row sequences the store may answer with.

\* SELECT * FROM users;
SelectAllUsers(s) == Orderings(s.users)

\* Variant of SelectUserById that lost its WHERE clause.
SelectUserByIdUnfiltered(s, userId) == Orderings(s.users)

\* SELECT * FROM users WHERE users.id=$1;
SelectUserById(s, userId) ==
  Orderings(SelectSeq(s.users, LAMBDA r : r.id = userId))

\* SELECT * FROM tweets WHERE tweets.author=$1;
SelectTweetsByAuthor(s, userId) ==
  Orderings(SelectSeq(s.tweets, LAMBDA r : r.author = userId))

\* SELECT hashtags.id, hashtags.tag FROM hashtags
\* JOIN tweet_hashtags ON hashtags.id=tweet_hashtags.hashtag_id
\* JOIN tweets ON tweets.id=tweet_hashtags.tweet_id WHERE tweets.id=$1;
SelectHashtagsByTweet(s, tweetId) ==
  Orderings(
    Flatten([h \in 1..Len(s.hashtags) |->
      Flatten([j \in 1..Len(s.tweet_hashtags) |->
        Flatten([t \in 1..Len(s.tweets) |->
          IF /\ s.hashtags[h].id = s.tweet_hashtags[j].hashtag_id
             /\ s.tweets[t].id = s.tweet_hashtags[j].tweet_id
             /\ s.tweets[t].id = tweetId
          THEN << [id |-> s.hashtags[h].id, tag |-> s.hashtags[h].tag] >>
          ELSE <<>> ]) ]) ]))

\* Variant of SelectFollowersOfUser whose second join matches the followers
\* alias on primary_id instead of follower_id.
SelectFollowersOfUserWrongColumn(s, userId) ==
  Orderings(
    Flatten([u \in 1..Len(s.users) |->
      Flatten([j \in 1..Len(s.user_followers) |->
        Flatten([f \in 1..Len(s.users) |->
          IF /\ s.users[u].id = s.user_followers[j].primary_id
             /\ s.users[f].id = s.user_followers[j].primary_id
             /\ s.users[u].id = userId
          THEN << [id |-> s.users[f].id, username |-> s.users[f].username] >>
          ELSE <<>> ]) ]) ]))

\* SELECT followers.id, followers.username FROM users
\* JOIN user_followers ON users.id=user_followers.primary_id
\* JOIN users AS followers ON followers.id=user_followers.follower_id
\* WHERE users.id=$1;
SelectFollowersOfUser(s, userId) ==
  Orderings(
    Flatten([u \in 1..Len(s.users) |->
      Flatten([j \in 1..Len(s.user_followers) |->
        Flatten([f \in 1..Len(s.users) |->
          IF /\ s.users[u].id = s.user_followers[j].primary_id
             /\ s.users[f].id = s.user_followers[j].follower_id
             /\ s.users[u].id = userId
          THEN << [id |-> s.users[f].id, username |-> s.users[f].username] >>
          ELSE <<>> ]) ]) ]))

\* Variant of SelectCountLikes that groups by tweet_id: no group, no row.
SelectCountLikesGrouped(s, tweetId) ==
  IF Len(SelectSeq(s.likes, LAMBDA r : r.tweet_id = tweetId)) = 0 THEN { <<>> }
  ELSE { << [count |-> Len(SelectSeq(s.likes, LAMBDA r : r.tweet_id = tweetId))] >> }

\* SELECT COUNT(*) FROM likes WHERE likes.tweet_id=$1;
SelectCountLikes(s, tweetId) ==
  { << [count |-> Len(SelectSeq(s.likes, LAMBDA r : r.tweet_id = tweetId))] >> }

\* A query as handed to client.query: the statement and its positional parameters.
Query(stmt, params) == [stmt |-> stmt, params |-> params]

\* The replies the store may give to a query.
Rows(q, s) ==
  CASE q.stmt = "SelectAllUsers"        -> SelectAllUsers(s)
    [] q.stmt = "SelectUserById"        -> SelectUserById(s, q.params[1])
    [] q.stmt = "SelectTweetsByAuthor"  -> SelectTweetsByAuthor(s, q.params[1])
    [] q.stmt = "SelectHashtagsByTweet" -> SelectHashtagsByTweet(s, q.params[1])
    [] q.stmt = "SelectFollowersOfUser" -> SelectFollowersOfUser(s, q.params[1])
    [] q.stmt = "SelectCountLikes"      -> SelectCountLikes(s, q.params[1])

\* Variant of StoreAfter in which the likes statement deletes what it counts.
StoreAfterDeletingLikes(q, s) ==
  IF q.stmt = "SelectCountLikes"
  THEN [s EXCEPT !.likes = SelectSeq(s.likes, LAMBDA r : r.tweet_id # q.params[1])]
  ELSE s

\* The relations after the store has executed a query: all six statements
\* are SELECTs.
StoreAfter(q, s) == s

\* ----------------------------------------------------------- the adapters
Adapters == { "getAllUsers", "getUserById", "getTweetsByUserId",
              "getHashtagsByTweetId", "getFollowersByUserId", "getLikesByTweetId" }

\* The statement each adapter passes to client.query.
StatementOf(fn) ==
  CASE fn = "getAllUsers"          -> "SelectAllUsers"
    [] fn = "getUserById"          -> "SelectUserById"
    [] fn = "getTweetsByUserId"    -> "SelectTweetsByAuthor"
    [] fn = "getHashtagsByTweetId" -> "SelectHashtagsByTweet"
    [] fn = "getFollowersByUserId" -> "SelectFollowersOfUser"
    [] fn = "getLikesByTweetId"    -> "SelectCountLikes"

\* The parameter array: getAllUsers binds nothing, the others [id].
ParamsOf(fn, a) == IF fn = "getAllUsers" THEN <<>> ELSE <<a>>

\* Variant of FirstRow that substitutes a placeholder record for a missing row.
FirstRowOrPlaceholder(rows) ==
  IF Len(rows) = 0 THEN [id |-> 0, username |-> <<"user", 0>>] ELSE rows[1]

\* const { rows: [user] } = ...: the first row, undefined when there is none.
FirstRow(rows) == IF Len(rows) = 0 THEN Undefined ELSE rows[1]

\* What the adapter returns from the rows of the reply.
AdapterResult(fn, rows) == IF fn = "getUserById" THEN FirstRow(rows) ELSE rows

\* Variant of Rethrow that wraps the store's error in one of its own.
RethrowTranslated(err) == "DatabaseError"

\* catch (err) { throw err; }
Rethrow(err) == err

NoActivation == [fn |-> "none", state |-> "none"]
NoReply      == [present |-> FALSE]
NoOutcome    == [kind |-> "none"]
NoLocals     == [assigned |-> 0]

\* An activation with no invocation in progress.
\*   top      the exported function the caller invoked, or "idle"
\*   arg      its argument
\*   tpc      testDB: number of the adapter call it is awaiting (0 outside testDB)
\*   loc      testDB: its local constants
\*   cur      the adapter activation: [fn, state, value, error]
\*   inbox    the settled client.query promise the adapter has not consumed yet
\*   issued   queries this invocation sent, in order
\*   replies  the store's answers to this invocation, in order
\*   outcome  how the invoked function settled: [kind, value, error]
Idle ==
  [ top |-> "idle", arg |-> 0, tpc |-> 0, loc |-> NoLocals, cur |-> NoActivation,
    inbox |-> NoReply, issued |-> <<>>, replies |-> <<>>, outcome |-> NoOutcome ]

\* Either one activation over every store of Stores, or all activations
\* over the stores of SharedStores.
Init ==
  /\ \/ /\ store \in Stores
        /\ calls = [c \in {"a1"} |-> Idle]
     \/ /\ store \in SharedStores
        /\ calls = [c \in Activations |-> Idle]
  /\ pending = {}

\* Calling an adapter runs it up to its await: client.query is handed the
\* statement and the adapter suspends.  r is the activation's record.
Called(r, fn, a) ==
  [r EXCEPT !.cur = [fn |-> fn, state |-> "awaiting"],
            !.issued = Append(@, Query(StatementOf(fn), ParamsOf(fn, a)))]

Sent(c, fn, a) == [call |-> c, query |-> Query(StatementOf(fn), ParamsOf(fn, a))]

\* A caller's invocation of an exported adapter with argument a.
Invoke(c, fn, a) ==
  /\ calls[c].top = "idle"
  /\ calls' = [calls EXCEPT ![c] = Called([@ EXCEPT !.top = fn, !.arg = a], fn, a)]
  /\ pending' = pending \cup { Sent(c, fn, a) }
  /\ UNCHANGED store

getAllUsers ==
  \E c \in DOMAIN calls : Invoke(c, "getAllUsers", 0)

getUserById ==
  \E c \in DOMAIN calls : \E userId \in UserIds : Invoke(c, "getUserById", userId)

getTweetsByUserId ==
  \E c \in DOMAIN calls : \E userId \in UserIds : Invoke(c, "getTweetsByUserId", userId)

getHashtagsByTweetId ==
  \E c \in DOMAIN calls : \E tweetId \in TweetIds : Invoke(c, "getHashtagsByTweetId", tweetId)

getFollowersByUserId ==
  \E c \in DOMAIN calls : \E userId \in UserIds : Invoke(c, "getFollowersByUserId", userId)

getLikesByTweetId ==
  \E c \in DOMAIN calls : \E tweetId \in TweetIds : Invoke(c, "getLikesByTweetId", tweetId)

\* The store answers a pending query with its rows, in some order.
QueryResolves ==
  \E p \in pending :
    \E rows \in Rows(p.query, store) :
      /\ calls' = [calls EXCEPT ![p.call] =
           [@ EXCEPT !.inbox = [present |-> TRUE, ok |-> TRUE, query |-> p.query, rows |-> rows],
                     !.replies = Append(@, [ok |-> TRUE, query |-> p.query, rows |-> rows])]]
      /\ pending' = pending \ {p}
      /\ store' = StoreAfter(p.query, store)

\* The store (or the connection) fails a pending query.
QueryRejects ==
  \E p \in pending :
    \E e \in StoreErrors :
      /\ calls' = [calls EXCEPT ![p.call] =
           [@ EXCEPT !.inbox = [present |-> TRUE, ok |-> FALSE, query |-> p.query, error |-> e],
                     !.replies = Append(@, [ok |-> FALSE, query |-> p.query, error |-> e])]]
      /\ pending' = pending \ {p}
      /\ UNCHANGED store

\* The adapter resumes after its await and returns the (destructured) rows.
AdapterReturns ==
  \E c \in DOMAIN calls :
    LET r == calls[c] IN
    /\ r.cur.state = "awaiting"
    /\ r.inbox # NoReply
    /\ r.inbox.ok
    /\ calls' = [calls EXCEPT ![c] =
         [r EXCEPT !.cur = [fn |-> r.cur.fn, state |-> "returned",
                            value |-> AdapterResult(r.cur.fn, r.inbox.rows)],
                   !.inbox = NoReply,
                   !.outcome = IF r.top = "testDB" THEN r.outcome
                               ELSE [kind |-> "returned",
                                     value |-> AdapterResult(r.cur.fn, r.inbox.rows)]]]
    /\ UNCHANGED <<store, pending>>

\* The adapter resumes in its catch block and rethrows.
AdapterThrows ==
  \E c \in DOMAIN calls :
    LET r == calls[c] IN
    /\ r.cur.state = "awaiting"
    /\ r.inbox # NoReply
    /\ ~r.inbox.ok
    /\ calls' = [calls EXCEPT ![c] =
         [r EXCEPT !.cur = [fn |-> r.cur.fn, state |-> "threw",
                            error |-> Rethrow(r.inbox.error)],
                   !.inbox = NoReply,
                   !.outcome = IF r.top = "testDB" THEN r.outcome
                               ELSE [kind |-> "threw", error |-> Rethrow(r.inbox.error)]]]
    /\ UNCHANGED <<store, pending>>

\* ------------------------------------------------------------------ testDB
\* Variant of TestDBCallee that asks for the followers before the likes.
TestDBCalleeSwapped(k) ==
  CASE k = 1 -> "getAllUsers"
    [] k = 2 -> "getUserById"
    [] k = 3 -> "getTweetsByUserId"
    [] k = 4 -> "getHashtagsByTweetId"
    [] k = 5 -> "getFollowersByUserId"
    [] k = 6 -> "getLikesByTweetId"

\* The adapter testDB awaits as its k-th call, and the argument it passes.
TestDBCallee(k) ==
  CASE k = 1 -> "getAllUsers"
    [] k = 2 -> "getUserById"
    [] k = 3 -> "getTweetsByUserId"
    [] k = 4 -> "getHashtagsByTweetId"
    [] k = 5 -> "getLikesByTweetId"
    [] k = 6 -> "getFollowersByUserId"

TestDBArgument(k, userId, firstUserTweetId) ==
  CASE k \in {1}    -> 0
    [] k \in {2, 3, 6} -> userId
    [] k \in {4, 5} -> firstUserTweetId

\* The constant the k-th awaited value is bound to.
TestDBLocal(k) ==
  CASE k = 1 -> "users"
    [] k = 2 -> "user"
    [] k = 3 -> "userTweets"
    [] k = 4 -> "userTweetHashtags"
    [] k = 5 -> "firstTweetLikes"
    [] k = 6 -> "userFollowers"

\* The object literal testDB returns.
Composite(l) ==
  [ users             |-> l.users,
    user              |-> l.user,
    userTweets        |-> l.userTweets,
    userTweetHashtags |-> l.userTweetHashtags,
    firstTweetLikes   |-> l.firstTweetLikes,
    userFollowers     |-> l.userFollowers ]

\* testDB's catch block: catch (err) { throw err; }
TestDBRethrow(err) == err

\* The locals after the constants of b are bound; assigned counts the
\* awaited values bound so far.
Bind(l, k, b) ==
  [x \in DOMAIN l \cup DOMAIN b |->
     IF x \in DOMAIN b THEN b[x]
     ELSE IF x = "assigned" THEN k ELSE l[x]]

\* A caller invokes testDB(userId): it runs up to its first await, inside
\* getAllUsers.
testDB ==
  \E c \in DOMAIN calls :
    \E userId \in UserIds :
      /\ calls[c].top = "idle"
      /\ calls' = [calls EXCEPT ![c] =
           Called([@ EXCEPT !.top = "testDB", !.arg = userId, !.tpc = 1],
                  TestDBCallee(1), TestDBArgument(1, userId, 0))]
      /\ pending' = pending \cup { Sent(c, TestDBCallee(1), TestDBArgument(1, userId, 0)) }
      /\ UNCHANGED store

\* users, user, userTweetHashtags and firstTweetLikes: bind the awaited
\* value, log it and call the next adapter.
TestDBContinue ==
  \E c \in DOMAIN calls :
    LET r    == calls[c]
        tid  == IF r.tpc >= 4 THEN r.loc.firstUserTweetId ELSE 0
        next == r.tpc + 1
    IN
    /\ r.top = "testDB"
    /\ r.outcome = NoOutcome
    /\ r.cur.state = "returned"
    /\ r.tpc \in {1, 2, 4, 5}
    /\ calls' = [calls EXCEPT ![c] =
         Called([r EXCEPT !.loc = Bind(r.loc, r.tpc,
                                       [x \in {TestDBLocal(r.tpc)} |-> r.cur.value]),
                          !.tpc = next],
                TestDBCallee(next), TestDBArgument(next, r.arg, tid))]
    /\ pending' = pending \cup { Sent(c, TestDBCallee(next), TestDBArgument(next, r.arg, tid)) }
    /\ UNCHANGED store

\* userTweets is bound and has a first element: firstUserTweetId is its id
\* and drives the hashtag lookup.
TestDBFirstTweet ==
  \E c \in DOMAIN calls :
    LET r == calls[c] IN
    /\ r.top = "testDB"
    /\ r.outcome = NoOutcome
    /\ r.cur.state = "returned"
    /\ r.tpc = 3
    /\ Len(r.cur.value) > 0
    /\ calls' = [calls EXCEPT ![c] =
         Called([r EXCEPT !.loc = Bind(r.loc, 3,
                                       [userTweets |-> r.cur.value,
                                        firstUserTweetId |-> r.cur.value[1].id]),
                          !.tpc = 4],
                TestDBCallee(4), TestDBArgument(4, r.arg, r.cur.value[1].id))]
    /\ pending' = pending \cup
         { Sent(c, TestDBCallee(4), TestDBArgument(4, r.arg, r.cur.value[1].id)) }
    /\ UNCHANGED store

\* Variant of TestDBFirstTweetFault with a guarded access (userTweets[0]?.id):
\* the hashtag lookup goes ahead with an id that matches no tweet.
TestDBFirstTweetGuarded ==
  \E c \in DOMAIN calls :
    LET r == calls[c] IN
    /\ r.top = "testDB"
    /\ r.outcome = NoOutcome
    /\ r.cur.state = "returned"
    /\ r.tpc = 3
    /\ Len(r.cur.value) = 0
    /\ calls' = [calls EXCEPT ![c] =
         Called([r EXCEPT !.loc = Bind(r.loc, 3,
                                       [userTweets |-> r.cur.value,
                                        firstUserTweetId |-> 0]),
                          !.tpc = 4],
                TestDBCallee(4), TestDBArgument(4, r.arg, 0))]
    /\ pending' = pending \cup { Sent(c, TestDBCallee(4), TestDBArgument(4, r.arg, 0)) }
    /\ UNCHANGED store

\* userTweets is empty: userTweets[0] is undefined, reading .id of it throws
\* a TypeError inside the try block, and the catch block rethrows it.
TestDBFirstTweetFault ==
  \E c \in DOMAIN calls :
    LET r == calls[c] IN
    /\ r.top = "testDB"
    /\ r.outcome = NoOutcome
    /\ r.cur.state = "returned"
    /\ r.tpc = 3
    /\ Len(r.cur.value) = 0
    /\ calls' = [calls EXCEPT ![c] =
         [r EXCEPT !.loc = Bind(r.loc, 3, [userTweets |-> r.cur.value]),
                   !.outcome = [kind |-> "threw", error |-> TestDBRethrow(TypeError)]]]
    /\ UNCHANGED <<store, pending>>

\* userFollowers is bound and the composite record is returned.
TestDBReturn ==
  \E c \in DOMAIN calls :
    LET r == calls[c]
        l == Bind(r.loc, 6, [userFollowers |-> r.cur.value])
    IN
    /\ r.top = "testDB"
    /\ r.outcome = NoOutcome
    /\ r.cur.state = "returned"
    /\ r.tpc = 6
    /\ calls' = [calls EXCEPT ![c] =
         [r EXCEPT !.loc = l,
                   !.outcome = [kind |-> "returned", value |-> Composite(l)]]]
    /\ UNCHANGED <<store, pending>>

\* An awaited adapter threw: control passes to the catch block, which
\* rethrows.
TestDBCatch ==
  \E c \in DOMAIN calls :
    LET r == calls[c] IN
    /\ r.top = "testDB"
    /\ r.outcome = NoOutcome
    /\ r.cur.state = "threw"
    /\ calls' = [calls EXCEPT ![c] =
         [r EXCEPT !.outcome = [kind |-> "threw", error |-> TestDBRethrow(r.cur.error)]]]
    /\ UNCHANGED <<store, pending>>

\* The caller has received the settled promise; the activation is over.
Settle ==
  \E c \in DOMAIN calls :
    /\ calls[c].outcome # NoOutcome
    /\ calls' = [calls EXCEPT ![c] = Idle]
    /\ UNCHANGED <<store, pending>>

Next ==
  \/ getAllUsers
  \/ getUserById
  \/ getTweetsByUserId
  \/ getHashtagsByTweetId
  \/ getFollowersByUserId
  \/ getLikesByTweetId
  \/ testDB
  \/ QueryResolves
  \/ QueryRejects
  \/ AdapterReturns
  \/ AdapterThrows
  \/ TestDBContinue
  \/ TestDBFirstTweet
  \/ TestDBFirstTweetFault
  \/ TestDBReturn
  \/ TestDBCatch
  \/ Settle

Spec == Init /\ [][Next]_vars

\* ------------------------------------------------------------ properties
Running       == DOMAIN calls
Settled(c)    == calls[c].outcome # NoOutcome
Returned(c)   == Settled(c) /\ calls[c].outcome.kind = "returned"
Threw(c)      == Settled(c) /\ calls[c].outcome.kind = "threw"
AllOk(c)      == \A i \in 1..Len(calls[c].replies) : calls[c].replies[i].ok
Failures(c)   == { i \in 1..Len(calls[c].replies) : ~calls[c].replies[i].ok }
PendingOf(c)  == { p \in pending : p.call = c }
HasUser(u)    == \E k \in 1..Len(store.users) : store.users[k].id = u
TweetsOf(u)   == { k \in 1..Len(store.tweets) : store.tweets[k].author = u }
LikesOf(t)    == { k \in 1..Len(store.likes) : store.likes[k].tweet_id = t }
SelfFollow(u) == \E k \in 1..Len(store.user_followers) :
                   /\ store.user_followers[k].primary_id = u
                   /\ store.user_followers[k].follower_id = u

\* C1: testDB(u) for a user u without tweets completes without raising an
\* error whenever the store answers every query it is sent.
C1_ZeroTweetsDoesNotCrash ==
  \A c \in Running :
    (calls[c].top = "testDB" /\ TweetsOf(calls[c].arg) = {} /\ Settled(c) /\ AllOk(c))
      => calls[c].outcome.kind = "returned"

\* C2: the rows getHashtagsByTweetId(t) returns carry pairwise different
\* hashtag ids.
C2_NoDuplicateHashtagIds ==
  \A c \in Running :
    (calls[c].top = "getHashtagsByTweetId" /\ Returned(c)) =>
      \A i, j \in 1..Len(calls[c].outcome.value) :
        i # j => calls[c].outcome.value[i].id # calls[c].outcome.value[j].id

\* C3: once the store has failed a query of an operation, that query was
\* sent exactly once and is the last one the operation sent, the operation
\* has nothing pending, the adapter rethrows the store's error value, and the
\* operation settles by throwing that same value without a return value.
C3_StoreErrorPropagatesUnchanged ==
  \A c \in Running :
    \A i \in Failures(c) :
      LET r == calls[c] IN
      /\ Cardinality({ k \in 1..Len(r.issued) : r.issued[k] = r.replies[i].query }) = 1
      /\ r.issued[Len(r.issued)] = r.replies[i].query
      /\ PendingOf(c) = {}
      /\ r.cur.state # "returned"
      /\ r.cur.state = "threw" => r.cur.error = r.replies[i].error
      /\ Settled(c) => r.outcome = [kind |-> "threw", error |-> r.replies[i].error]

\* testDB failed at its fifth query while another invocation awaits its reply.
C3_Witness ==
  \E c \in Running :
    /\ calls[c].top = "testDB"
    /\ Len(calls[c].replies) = 5
    /\ ~calls[c].replies[5].ok
    /\ calls[c].outcome = [kind |-> "threw", error |-> "42P01"]
    /\ \E p \in pending : p.call # c

\* C4: getUserById(u) for a u that is the id of a users row returns one
\* record, a row of users, whose id is u.
C4_GetUserByIdReturnsThatUser ==
  \A c \in Running :
    (calls[c].top = "getUserById" /\ Returned(c) /\ HasUser(calls[c].arg)) =>
      /\ calls[c].outcome.value # Undefined
      /\ calls[c].outcome.value.id = calls[c].arg
      /\ \E k \in 1..Len(store.users) : store.users[k] = calls[c].outcome.value
      /\ Len(calls[c].replies[1].rows) = 1

C4_Witness ==
  \E c \in Running :
    /\ calls[c].top = "getUserById" /\ Returned(c) /\ HasUser(calls[c].arg)
    /\ calls[c].arg = 2
    /\ Len(store.users) = 2

\* C5: getUserById(u) for a u that is the id of no users row settles, when
\* the store answers the query, by returning undefined; it does not throw.
C5_GetUserByIdAbsentIsEmpty ==
  \A c \in Running :
    (calls[c].top = "getUserById" /\ Settled(c) /\ AllOk(c) /\ ~HasUser(calls[c].arg)) =>
      /\ calls[c].outcome.kind = "returned"
      /\ calls[c].outcome.value = Undefined

C5_Witness ==
  \E c \in Running :
    /\ calls[c].top = "getUserById" /\ Returned(c) /\ ~HasUser(calls[c].arg)
    /\ Len(store.users) = 1

\* C6: getLikesByTweetId(t) for a t without likes rows settles, when the
\* store answers the query, by returning one row whose only field, count,
\* is 0.
C6_ZeroLikesCountsZero ==
  \A c \in Running :
    (calls[c].top = "getLikesByTweetId" /\ Settled(c) /\ AllOk(c)
       /\ LikesOf(calls[c].arg) = {}) =>
      /\ calls[c].outcome.kind = "returned"
      /\ Len(calls[c].outcome.value) = 1
      /\ DOMAIN calls[c].outcome.value[1] = {"count"}
      /\ calls[c].outcome.value[1].count = 0

C6_Witness ==
  \E c \in Running :
    /\ calls[c].top = "getLikesByTweetId" /\ Returned(c) /\ LikesOf(calls[c].arg) = {}
    /\ Len(store.likes) = 2

\* C7: a record with id u is among the rows getFollowersByUserId(u) returns
\* only if user_followers holds the row (u, u).
C7_SelfOnlyWhenSelfFollow ==
  \A c \in Running :
    (calls[c].top = "getFollowersByUserId" /\ Returned(c)) =>
      ((\E i \in 1..Len(calls[c].outcome.value) :
          calls[c].outcome.value[i].id = calls[c].arg) => SelfFollow(calls[c].arg))

C7_Witness ==
  \E c \in Running :
    /\ calls[c].top = "getFollowersByUserId" /\ Returned(c)
    /\ Len(calls[c].outcome.value) = 2
    /\ \E i \in 1..2 : calls[c].outcome.value[i].id = calls[c].arg
    /\ \E i \in 1..2 : calls[c].outcome.value[i].id # calls[c].arg

\* C8: an invocation of testDB never has more than one query of its own in
\* flight and sends a query only after every earlier one of its own was
\* answered; a run that returns has sent exactly the six queries all-users,
\* user-by-id(u), tweets-by-author(u), hashtags-by-tweet(t),
\* likes-by-tweet(t), followers-of(u), in this order, t being the id of the
\* first row of the tweets-by-author reply.
C8_SixQueriesInSequence ==
  \A c \in Running :
    LET r == calls[c] IN
    r.top = "testDB" =>
      /\ Cardinality(PendingOf(c)) <= 1
      /\ Len(r.issued) = Len(r.replies) + Cardinality(PendingOf(c))
      /\ Returned(c) =>
           /\ Len(r.replies) = 6
           /\ r.issued = << Query("SelectAllUsers", <<>>),
                            Query("SelectUserById", <<r.arg>>),
                            Query("SelectTweetsByAuthor", <<r.arg>>),
                            Query("SelectHashtagsByTweet", <<r.replies[3].rows[1].id>>),
                            Query("SelectCountLikes", <<r.replies[3].rows[1].id>>),
                            Query("SelectFollowersOfUser", <<r.arg>>) >>
           /\ \A k \in 1..6 : r.replies[k].query = r.issued[k]

\* The store delivered tweet 2 before tweet 1, so t = 2.
C8_Witness ==
  \E c \in Running :
    /\ calls[c].top = "testDB" /\ Returned(c)
    /\ Len(calls[c].replies[3].rows) = 2
    /\ calls[c].replies[3].rows[1].id = 2
    /\ calls[c].issued[4].params = <<2>>

\* C9: no step of the layer changes a relation of the store, and an adapter
\* that returns hands back the rows of the store's reply as they are
\* (getUserById: the first of them, undefined when there is none).
C9_RowsUnmodified ==
  \A c \in Running :
    LET r == calls[c] IN
    (r.top \in Adapters /\ Returned(c)) =>
      /\ Len(r.replies) = 1
      /\ r.replies[1].rows \in Rows(r.issued[1], store)
      /\ r.top # "getUserById" => r.outcome.value = r.replies[1].rows
      /\ r.top = "getUserById" =>
           \/ Len(r.replies[1].rows) = 0 /\ r.outcome.value = Undefined
           \/ Len(r.replies[1].rows) > 0 /\ r.outcome.value = r.replies[1].rows[1]

C9_ReadOnly == [][store' = store]_vars /\ []C9_RowsUnmodified

C9_Witness ==
  \E c \in Running :
    /\ calls[c].top = "getTweetsByUserId" /\ Returned(c)
    /\ Len(calls[c].outcome.value) = 2

\* C10: testDB stops at its first failing step: a failed query is the last
\* one it sent, an empty tweets-by-author reply leaves it at three queries,
\* and in both cases it settles by throwing that error (the store's, or the
\* TypeError of the first-tweet access), never by returning a record.
C10_AbortsAtFirstFailure ==
  \A c \in Running :
    LET r == calls[c] IN
    r.top = "testDB" =>
      /\ \A i \in Failures(c) :
           /\ i = Len(r.issued)
           /\ PendingOf(c) = {}
           /\ Settled(c) => r.outcome = [kind |-> "threw", error |-> r.replies[i].error]
      /\ (Len(r.replies) >= 3 /\ r.replies[3].ok /\ Len(r.replies[3].rows) = 0) =>
           /\ Len(r.issued) = 3
           /\ PendingOf(c) = {}
           /\ Settled(c) => r.outcome = [kind |-> "threw", error |-> TypeError]

\* The first-tweet access faulted while another invocation awaits its reply.
C10_Witness ==
  \E c \in Running :
    /\ calls[c].top = "testDB" /\ Threw(c)
    /\ calls[c].outcome.error = TypeError
    /\ Len(calls[c].issued) = 3
    /\ \E p \in pending : p.call # c
====
